---- MODULE Spec2Model ----
(***************************************************************************)
(* Model of pump19's command layer (src/command.py): the PRIVMSG           *)
(* dispatcher, the regex router, the rate limiter decorator and the        *)
(* command handlers, run as asyncio tasks on one event loop.               *)
(*                                                                         *)
(* A text is a sequence of characters, each character a one-character      *)
(* string; a non-ASCII code point is written by its name ("U+1F3B5").      *)
(* Literal pieces of an outbound message are kept as single elements, so   *)
(* an outbound text is the concatenation of its elements.                  *)
(* Python's None is the empty sequence; no text of the model is empty      *)
(* where None is a possible value.                                         *)
(***************************************************************************)
EXTENDS Integers, Sequences, FiniteSets, TLC

None == << >>

(***************************************************************************)
(* Bounds of the model.                                                    *)
(***************************************************************************)
MaxClock == 34
MaxTasks == 2
MaxEvents == 3
MaxBurst == 2
MaxInstances == 2

(***************************************************************************)
(* Program constants.                                                      *)
(***************************************************************************)
DefaultSpan == 15
LRRMC_TIMEOUT == 2
MC_PORT == 25565

BINGO_URL == "https://pump19.eu/bingo"
COMMAND_URL == "https://pump19.eu/commands"

HandlerNames == {"vod", "clip", "lrrmc", "lastfm", "roll", "bingo", "help"}

(***************************************************************************)
(* Character classes of Python's re: \w and \d on str patterns are         *)
(* Unicode-aware unless the pattern is compiled with re.ASCII.             *)
(***************************************************************************)
AsciiDigits == {"0", "1", "2", "3", "4", "5", "6", "7", "8", "9"}
AsciiLetters == {"a", "b", "c", "d", "e", "f", "g", "h", "i", "j", "k", "l",
                 "m", "n", "o", "p", "q", "r", "s", "t", "u", "v", "w", "x",
                 "y", "z"}
AsciiWord == AsciiLetters \cup AsciiDigits \cup {"_"}
\* U+00E9 (e acute) is a letter, U+0663 (ARABIC-INDIC DIGIT THREE) a digit
UnicodeWord == AsciiWord \cup {"U+00E9", "U+0663"}
UnicodeDigits == AsciiDigits \cup {"U+0663"}

AllIn(s, class) == Len(s) >= 1 /\ \A i \in 1..Len(s) : s[i] \in class

StartsWith(s, p) == Len(s) >= Len(p) /\ SubSeq(s, 1, Len(p)) = p

Tail_n(s, n) == SubSeq(s, n + 1, Len(s))

IndexOf(s, c) ==
    IF \E i \in 1..Len(s) : s[i] = c
    THEN CHOOSE i \in 1..Len(s) : s[i] = c /\ \A j \in 1..(i - 1) : s[j] # c
    ELSE 0

(***************************************************************************)
(* CMD_REGEX: each pattern under regex.fullmatch(string).  The result is   *)
(* [matched, groups], groups being match.groupdict(): a named group that   *)
(* took no part in the match maps to None.                                 *)
(***************************************************************************)
NoMatch == [matched |-> FALSE, groups |-> << >>]
Matched(g) == [matched |-> TRUE, groups |-> g]

T_vod == <<"v", "o", "d">>
T_clip == <<"c", "l", "i", "p">>
T_lrrmc == <<"l", "r", "r", "m", "c">>
T_pick == <<"U+26CF", "U+FE0F">>
T_lastfm == <<"l", "a", "s", "t", ".", "f", "m">>
T_note == <<"U+1F3B5">>
T_roll == <<"r", "o", "l", "l">>
T_die == <<"U+1F3B2">>
T_bingo == <<"b", "i", "n", "g", "o">>
T_help == <<"h", "e", "l", "p">>
T_ambulance == <<"U+1F691">>

\* the alternatives (?:a|b) are tried in order; the first that is a prefix
\* of the string is the only one that can lead to a full match here, since
\* neither alternative of any pattern is a prefix of the other
AfterAlt(s, a, b) ==
    IF StartsWith(s, a) THEN <<Tail_n(s, Len(a))>>
    ELSE IF StartsWith(s, b) THEN <<Tail_n(s, Len(b))>>
    ELSE << >>

\* "^vod$"
fullmatch_vod(s) == IF s = T_vod THEN Matched(<< >>) ELSE NoMatch

\* "^clip$"
fullmatch_clip(s) == IF s = T_clip THEN Matched(<< >>) ELSE NoMatch

\* "^(?:lrrmc|PICK)(?: (?P<server>\w+))?$"
fullmatch_lrrmc(s) ==
    LET rest == AfterAlt(s, T_lrrmc, T_pick) IN
    IF rest = << >> THEN NoMatch
    ELSE IF rest[1] = << >> THEN Matched([server |-> None])
    ELSE IF rest[1][1] = " " /\ AllIn(Tail_n(rest[1], 1), UnicodeWord)
         THEN Matched([server |-> Tail_n(rest[1], 1)])
    ELSE NoMatch

\* "^(?:last\.fm|NOTE) (?P<user>\w+)$" with re.ASCII
fullmatch_lastfm(s) ==
    LET rest == AfterAlt(s, T_lastfm, T_note) IN
    IF rest = << >> \/ rest[1] = << >> THEN NoMatch
    ELSE IF rest[1][1] = " " /\ AllIn(Tail_n(rest[1], 1), AsciiWord)
         THEN Matched([user |-> Tail_n(rest[1], 1)])
    ELSE NoMatch

\* "^(?:roll|DIE)(?: (?P<count>\d+)?d(?P<sides>\d+))?"
fullmatch_roll(s) ==
    LET rest == AfterAlt(s, T_roll, T_die) IN
    IF rest = << >> THEN NoMatch
    ELSE IF rest[1] = << >> THEN Matched([count |-> None, sides |-> None])
    ELSE IF rest[1][1] # " " THEN NoMatch
    ELSE LET arg == Tail_n(rest[1], 1)
             d == IndexOf(arg, "d")
             count == SubSeq(arg, 1, d - 1)
             sides == Tail_n(arg, d)
         IN  IF d = 0 \/ ~AllIn(sides, UnicodeDigits) THEN NoMatch
             ELSE IF count = << >> THEN Matched([count |-> None, sides |-> sides])
             ELSE IF AllIn(count, UnicodeDigits) THEN Matched([count |-> count, sides |-> sides])
             ELSE NoMatch

\* "^bingo$"
fullmatch_bingo(s) == IF s = T_bingo THEN Matched(<< >>) ELSE NoMatch

\* "^help|AMBULANCE$": the alternation binds loosest, so the branches are
\* "^help" and "AMBULANCE$"; fullmatch makes either span the whole string
fullmatch_help(s) == IF s = T_help \/ s = T_ambulance THEN Matched(<< >>) ELSE NoMatch

fullmatch(regex, s) ==
    CASE regex = "vod" -> fullmatch_vod(s)
      [] regex = "clip" -> fullmatch_clip(s)
      [] regex = "lrrmc" -> fullmatch_lrrmc(s)
      [] regex = "lastfm" -> fullmatch_lastfm(s)
      [] regex = "roll" -> fullmatch_roll(s)
      [] regex = "bingo" -> fullmatch_bingo(s)
      [] regex = "help" -> fullmatch_help(s)

\* CMD_REGEX.items() in insertion order
CMD_REGEX == <<"vod", "clip", "lrrmc", "lastfm", "roll", "bingo", "help">>

(***************************************************************************)
(* CommandRouter.get_route: the bindings are tried in list order and the   *)
(* first full match wins; the result is functools.partial(callback,        *)
(* **groupdict), or None.                                                  *)
(***************************************************************************)
\* variant: the last binding that matches is taken
FirstMatch_Last(rs, string) ==
    IF \E k \in 1..Len(rs) : fullmatch(rs[k].regex, string).matched
    THEN CHOOSE k \in 1..Len(rs) :
            /\ fullmatch(rs[k].regex, string).matched
            /\ \A j \in (k + 1)..Len(rs) : ~fullmatch(rs[j].regex, string).matched
    ELSE 0

FirstMatch(rs, string) ==
    IF \E k \in 1..Len(rs) : fullmatch(rs[k].regex, string).matched
    THEN CHOOSE k \in 1..Len(rs) :
            /\ fullmatch(rs[k].regex, string).matched
            /\ \A j \in 1..(k - 1) : ~fullmatch(rs[j].regex, string).matched
    ELSE 0

get_route(rs, string) ==
    LET k == FirstMatch(rs, string) IN
    IF k = 0 THEN None
    ELSE <<[callback |-> rs[k].callback, self |-> rs[k].self,
            kwargs |-> fullmatch(rs[k].regex, string).groups]>>

\* setup_routing of the instance self: one add_route per CMD_REGEX entry
\* that has a handle_command_<key> method (every entry has one); the
\* callback is the method bound to self.  The list is the one list of the
\* class CommandRouter, which every router and so every instance shares.
setup_routing(rs, self) ==
    rs \o [k \in 1..Len(CMD_REGEX) |->
              [regex |-> CMD_REGEX[k], callback |-> CMD_REGEX[k], self |-> self]]

(***************************************************************************)
(* str.format of the values the handlers interpolate.                      *)
(***************************************************************************)
Digit(d) == CASE d = 0 -> "0" [] d = 1 -> "1" [] d = 2 -> "2" [] d = 3 -> "3"
              [] d = 4 -> "4" [] d = 5 -> "5" [] d = 6 -> "6" [] d = 7 -> "7"
              [] d = 8 -> "8" [] d = 9 -> "9"

RECURSIVE StrInt(_)
StrInt(n) == IF n < 10 THEN <<Digit(n)>> ELSE StrInt(n \div 10) \o <<Digit(n % 10)>>

\* "{0}".format(None) is "None"
StrOpt(v) == IF v = None THEN <<"None">> ELSE v

(***************************************************************************)
(* LRRMC_SERVERS and LRRMC_SERVERS.get(server, LRRMC_SERVERS["vanilla"]).  *)
(***************************************************************************)
T_vanilla == <<"v", "a", "n", "i", "l", "l", "a">>
T_snorsh == <<"s", "n", "o", "r", "s", "h">>

SERVER_vanilla ==
    [name |-> "the LRR Vanilla Minecraft Server",
     host |-> "minecraft.darkmorford.net",
     port |-> MC_PORT,
     info |-> "Check http://minecraft.darkmorford.net:8123/ for the dynamic map."]

SERVER_snorsh ==
    [name |-> "the LRR Modded Minecraft Server",
     host |-> "ftb.darkmorford.net",
     port |-> MC_PORT,
     info |-> "One up James on SnorshCraft."]

LRRMC_SERVERS_get(server) ==
    IF server = T_snorsh THEN SERVER_snorsh ELSE SERVER_vanilla

(***************************************************************************)
(* The messages the handlers compose.                                      *)
(***************************************************************************)
\* "Latest Broadcast: {0} [{2}] | {1}".format(*vod)
broadcast_msg(vod) ==
    <<"Latest Broadcast: ", vod[1], " [", vod[3], "] | ", vod[2]>>

\* "Top Clip: {0} [{2}] | https://clips.twitch.tv/{1}".format(*clip)
clip_msg(clip) ==
    <<"Top Clip: ", clip[1], " [", clip[3], "] | https://clips.twitch.tv/", clip[2]>>

\* "Join {name} on {host}:{port}! {info} Current Status: {status}"
base_msg(server, status) ==
    <<"Join ", server.name, " on ", server.host, ":">> \o StrInt(server.port)
    \o <<"! ", server.info, " Current Status: ">> \o status

\* "Online - {now}/{max} players"
status_msg(nowp, maxp) == <<"Online - ">> \o nowp \o <<"/">> \o maxp \o <<" players">>

no_lastfm_user_msg(user) ==
    <<"Cannot query last.fm user information for ">> \o StrOpt(user) \o <<".">>

no_lastfm_track_msg(name) ==
    <<"Cannot query most recently played track for ">> \o StrOpt(name) \o <<".">>

\* variant: the two wordings exchanged
tempus_Swapped(live) == IF live THEN "last listened" ELSE "is listening"

tempus(live) == IF live THEN "is listening" ELSE "last listened"

lastfm_msg(name, live, track, artist) ==
    StrOpt(name) \o <<" ", tempus(live), " to \"">> \o StrOpt(track)
    \o <<"\" by ">> \o StrOpt(artist)

roll_msg == <<"THIS is why we can't have nice things!">>

bingo_msg == <<"Check out ", BINGO_URL, " for our interactive Trope Bingo cards.">>

help_msg ==
    <<"Pump19 is run by Twisted Pear. Check ", COMMAND_URL,
      " for a list of supported commands.">>

(***************************************************************************)
(* Values the collaborators hand back.  A Python value of a shape the      *)
(* handler does not control is tagged with its type.                       *)
(***************************************************************************)
PyNone == [t |-> "none"]
PyInt(n) == [t |-> "int", v |-> n]
PyDict(f) == [t |-> "dict", v |-> f]

EmptyDict == PyDict(<< >>)

Truthy(x) ==
    CASE x.t = "none" -> FALSE
      [] x.t = "int" -> x.v # 0
      [] x.t = "dict" -> DOMAIN x.v # {}

\* x[key]: [ok, value]; not ok is the KeyError of a dict without the key
\* or the TypeError of a value that is not subscriptable
Subscript(x, key) ==
    IF x.t = "dict" /\ key \in DOMAIN x.v
    THEN [ok |-> TRUE, value |-> x.v[key]]
    ELSE [ok |-> FALSE, value |-> PyNone]

StrPy(x) == IF x.t = "int" THEN StrInt(x.v) ELSE <<"None">>

\* twitch.get_broadcasts / get_top_clips: an iterator of (title, id, status)
\* tuples; next(iterator, None) is its first item or None
TwitchResults == {<< >>, <<<<"Title", "1234", "recorded">>>>}

next_or_none(it) == IF Len(it) = 0 THEN None ELSE <<it[1]>>

StatusResults ==
    {PyNone,
     EmptyDict,
     PyDict([players |-> PyDict([online |-> PyInt(3), max |-> PyInt(20)])]),
     PyDict([players |-> PyDict([online |-> PyInt(3)])]),
     PyDict([players |-> PyNone]),
     PyDict([version |-> PyInt(1)])}

\* songs.get_lastfm_info: None, or a dict read with info.get(key)
LastfmResults ==
    {None} \cup
    {<<[name |-> <<"X">>, live |-> l, track |-> t, artist |-> a]>> :
        l \in BOOLEAN, t \in {None, <<"T">>}, a \in {None, <<"A">>}}

(***************************************************************************)
(* State.                                                                  *)
(*   clock      loop.time(), in seconds                                    *)
(*   spam_last  wrapper._spam_last of each decorated handler               *)
(*   routes     CommandRouter.routes                                       *)
(*   tasks      the handle_privmsg coroutines: one slot per task, kept     *)
(*              after the task has ended until the next event is delivered *)
(*              nick, target, message: the event; reply: the local target  *)
(*              after the query test; started: loop.time() at the call;    *)
(*              result: what the awaited collaborator returned; calls:     *)
(*              requests made to a collaborator; sent: client.privmsg calls*)
(*              self: the instance whose handle_privmsg got the event;     *)
(*              bound: the instance the resolved callback is bound to      *)
(*   nevents    PRIVMSG events delivered so far                            *)
(***************************************************************************)
VARIABLES clock, spam_last, routes, tasks, nevents

vars == <<clock, spam_last, routes, tasks, nevents>>

\* config.py: PUMP19_CMD_PREFIX defaults to "!"; tuple(prefix)
prefix == {"!"}

\* client.nickname
nickname == "pump19"

\* wrapper._spam_span = self.span, of the one Limiter() of the class
spam_span(h) == DefaultSpan

Slots == 1..MaxTasks

IdleTask ==
    [pc |-> "idle", nick |-> "", target |-> "", message |-> << >>,
     reply |-> "", handler |-> "none", kwargs |-> << >>,
     permitted |-> FALSE, started |-> 0, calls |-> 0, result |-> << >>,
     sent |-> << >>, self |-> 0, bound |-> 0]

Suspended(t) == t.pc \in {"await_twitch", "await_status", "await_lastfm"}

Ended(t) == t.pc \in {"returned", "raised"}

\* variant: the message goes to the target of the event, not to the local
\* target the query test has set
privmsg_EventTarget(t, text) ==
    [t EXCEPT !.sent = Append(@, [target |-> t.target, text |-> text]),
              !.pc = "returned"]

\* client.privmsg(target, text), then the handler returns
privmsg(t, text) ==
    [t EXCEPT !.sent = Append(@, [target |-> t.reply, text |-> text]),
              !.pc = "returned"]

\* the exception propagates through wrapper and handle_privmsg: neither
\* has a try block
raise(t) == [t EXCEPT !.pc = "raised"]

(***************************************************************************)
(* Limiter.__call__.wrapper                                                *)
(***************************************************************************)
\* variants of the check: the stored timestamp left out of the
\* comparison; the comparison made inclusive
Permitted_NoLast(now, last, span) == now > span

Permitted_Inclusive(now, last, span) == (now - last) >= span

Permitted(now, last, span) == (now - last) > span

\* variants of the update: the timestamp not stored; one timestamp shared
\* by every wrapper
spam_last_update_Lost(last, h, now) == last

spam_last_update_Shared(last, h, now) == [g \in DOMAIN last |-> now]

spam_last_update(last, h, now) == [last EXCEPT ![h] = now]

(***************************************************************************)
(* The handlers, from their entry to their first suspension.               *)
(***************************************************************************)
handler_enter(t) ==
    CASE t.handler \in {"vod", "clip"} ->
            [t EXCEPT !.pc = "await_twitch", !.calls = @ + 1]
      [] t.handler = "lrrmc" ->
            [t EXCEPT !.pc = "await_status", !.calls = @ + 1]
      [] t.handler = "lastfm" ->
            [t EXCEPT !.pc = "await_lastfm", !.calls = @ + 1]
      [] t.handler = "roll" -> privmsg(t, roll_msg)
      [] t.handler = "bingo" -> privmsg(t, bingo_msg)
      [] t.handler = "help" -> privmsg(t, help_msg)

\* handle_command_vod / handle_command_clip after the await
twitch_resume(t0, result) ==
    LET t == [t0 EXCEPT !.result = result]
        item == next_or_none(result)
    IN  IF item = None THEN raise(t)   \* "...".format(*None): TypeError
        ELSE IF t.handler = "vod" THEN privmsg(t, broadcast_msg(item[1]))
        ELSE privmsg(t, clip_msg(item[1]))

\* variant: no return after the Unknown message, so the handler goes on to
\* the status message
lrrmc_resume_NoReturn(t0, status) ==
    LET t == [t0 EXCEPT !.result = status]
        server == LRRMC_SERVERS_get(t.kwargs.server)
        players == Subscript(status, "players")
        online == IF players.ok THEN Subscript(players.value, "online")
                  ELSE players
        max == IF players.ok THEN Subscript(players.value, "max")
               ELSE players
        u == IF ~Truthy(status) THEN privmsg(t, base_msg(server, <<"Unknown">>))
             ELSE t
    IN  IF online.ok /\ max.ok
        THEN privmsg(u, base_msg(server,
                        status_msg(StrPy(online.value), StrPy(max.value))))
        ELSE privmsg(u, base_msg(server, status_msg(<<"?">>, <<"?">>)))

\* handle_command_lrrmc after asyncio.wait_for; a timeout leaves status None
lrrmc_resume(t0, status) ==
    LET t == [t0 EXCEPT !.result = status]
        server == LRRMC_SERVERS_get(t.kwargs.server)
        players == Subscript(status, "players")
        online == IF players.ok THEN Subscript(players.value, "online")
                  ELSE players
        max == IF players.ok THEN Subscript(players.value, "max")
               ELSE players
    IN  IF ~Truthy(status) THEN privmsg(t, base_msg(server, <<"Unknown">>))
        ELSE IF online.ok /\ max.ok
             THEN privmsg(t, base_msg(server,
                        status_msg(StrPy(online.value), StrPy(max.value))))
        ELSE privmsg(t, base_msg(server, status_msg(<<"?">>, <<"?">>)))

\* handle_command_lastfm after the await
lastfm_resume(t0, info) ==
    LET t == [t0 EXCEPT !.result = info] IN
    IF info = None THEN privmsg(t, no_lastfm_user_msg(t.kwargs.user))
    ELSE LET i == info[1] IN
         IF i.track = None /\ i.artist = None
         THEN privmsg(t, no_lastfm_track_msg(i.name))
         ELSE privmsg(t, lastfm_msg(i.name, i.live, i.track, i.artist))

(***************************************************************************)
(* handle_privmsg, from the event to the first suspension of the task.     *)
(* The result is the task and the limiter timestamps it leaves.            *)
(***************************************************************************)
\* variant: the prefix is not tested, only the length
is_command_AnyPrefix(message) == Len(message) >= 2

is_command(message) ==
    ~(~(Len(message) >= 1 /\ message[1] \in prefix) \/ Len(message) < 2)

\* variant: a private query is not rate limited
handle_privmsg_QueryExempt(self, nick, target, message, now, last, rs) ==
    LET t0 == [IdleTask EXCEPT !.nick = nick, !.target = target,
                               !.message = message, !.started = now,
                               !.pc = "returned", !.self = self]
    IN
    IF ~is_command(message) THEN [task |-> t0, last |-> last]
    ELSE
    LET cmd == Tail_n(message, 1)
        reply == IF target = nickname THEN nick ELSE target
        route == get_route(rs, cmd)
    IN
    IF route = None THEN [task |-> [t0 EXCEPT !.reply = reply], last |-> last]
    ELSE
    LET h == route[1].callback
        t1 == [t0 EXCEPT !.reply = reply, !.handler = h,
                         !.kwargs = route[1].kwargs,
                         !.bound = route[1].self]
    IN
    IF target = nickname \/ Permitted(now, last[h], spam_span(h))
    THEN [task |-> handler_enter([t1 EXCEPT !.permitted = TRUE]),
          last |-> spam_last_update(last, h, now)]
    ELSE [task |-> t1, last |-> last]

\* variant: a suppressed call restarts the window
handle_privmsg_Sliding(self, nick, target, message, now, last, rs) ==
    LET t0 == [IdleTask EXCEPT !.nick = nick, !.target = target,
                               !.message = message, !.started = now,
                               !.pc = "returned", !.self = self]
    IN
    IF ~is_command(message) THEN [task |-> t0, last |-> last]
    ELSE
    LET cmd == Tail_n(message, 1)
        reply == IF target = nickname THEN nick ELSE target
        route == get_route(rs, cmd)
    IN
    IF route = None THEN [task |-> [t0 EXCEPT !.reply = reply], last |-> last]
    ELSE
    LET h == route[1].callback
        t1 == [t0 EXCEPT !.reply = reply, !.handler = h,
                         !.kwargs = route[1].kwargs,
                         !.bound = route[1].self]
    IN
    IF Permitted(now, last[h], spam_span(h))
    THEN [task |-> handler_enter([t1 EXCEPT !.permitted = TRUE]),
          last |-> spam_last_update(last, h, now)]
    ELSE [task |-> t1, last |-> spam_last_update(last, h, now)]

handle_privmsg(self, nick, target, message, now, last, rs) ==
    LET t0 == [IdleTask EXCEPT !.nick = nick, !.target = target,
                               !.message = message, !.started = now,
                               !.pc = "returned", !.self = self]
    IN
    IF ~is_command(message) THEN [task |-> t0, last |-> last]
    ELSE
    LET cmd == Tail_n(message, 1)
        reply == IF target = nickname THEN nick ELSE target
        route == get_route(rs, cmd)
    IN
    IF route = None THEN [task |-> [t0 EXCEPT !.reply = reply], last |-> last]
    ELSE
    LET h == route[1].callback
        t1 == [t0 EXCEPT !.reply = reply, !.handler = h,
                         !.kwargs = route[1].kwargs,
                         !.bound = route[1].self]
    IN
    IF Permitted(now, last[h], spam_span(h))
    THEN [task |-> handler_enter([t1 EXCEPT !.permitted = TRUE]),
          last |-> spam_last_update(last, h, now)]
    ELSE [task |-> t1, last |-> last]

(***************************************************************************)
(* Inputs: the PRIVMSG events the protocol delivers.                       *)
(***************************************************************************)
Cmd(text) == <<"!">> \o text

M_vod == Cmd(T_vod)
M_clip == Cmd(T_clip)
M_lrrmc == Cmd(T_lrrmc)
M_lrrmc_snorsh == Cmd(T_lrrmc \o <<" ">> \o T_snorsh)
M_pick_other == Cmd(T_pick \o <<" ", "f", "U+00E9">>)
M_lastfm_bob == Cmd(T_lastfm \o <<" ", "b", "o", "b">>)
M_note_bob == Cmd(T_note \o <<" ", "b", "o", "b">>)
M_roll == Cmd(T_roll)
M_roll_2d6 == Cmd(T_roll \o <<" ", "2", "d", "6">>)
M_die_d6 == Cmd(T_die \o <<" ", "d", "6">>)
M_bingo == Cmd(T_bingo)
M_help == Cmd(T_help)
M_ambulance == Cmd(T_ambulance)

CommandMessages ==
    {M_vod, M_clip, M_lrrmc, M_lrrmc_snorsh, M_pick_other, M_lastfm_bob,
     M_note_bob, M_roll, M_roll_2d6, M_die_d6, M_bingo, M_help, M_ambulance}

\* no prefix; the prefix alone; the empty text; another prefix character;
\* a prefix and a text no pattern fully matches
NonCommandMessages ==
    {T_vod, <<"!">>, << >>, <<"&">> \o T_vod,
     Cmd(T_vod \o <<"x">>), Cmd(<<" ">> \o T_vod), Cmd(T_help \o <<" ", "m", "e">>),
     Cmd(T_lastfm), Cmd(T_lastfm \o <<" ", "b", "U+00E9">>),
     Cmd(T_roll \o <<" ", "2", "d">>), Cmd(<<"x">> \o T_ambulance)}

(***************************************************************************)
(* Init: the state after CommandHandler(client, loop=loop, **config) of    *)
(* pump19.main.  Each decorated handler has _spam_last = 0.0; the router   *)
(* holds one binding per CMD_REGEX entry.  The loop's clock is monotonic   *)
(* time, whose origin the program does not choose.                         *)
(***************************************************************************)
InitRest ==
    /\ spam_last = [h \in HandlerNames |-> 0]
    /\ routes = setup_routing(<< >>, 1)
    /\ tasks = [i \in Slots |-> IdleTask]
    /\ nevents = 0

(***************************************************************************)
(* Actions.                                                                *)
(***************************************************************************)
\* time passes
Tick ==
    /\ clock < MaxClock
    /\ clock' = clock + 1
    /\ UNCHANGED <<spam_last, routes, tasks, nevents>>

\* the CommandHandler instances constructed so far: each has appended one
\* binding per CMD_REGEX entry
Instances == 1..(Len(routes) \div Len(CMD_REGEX))

FreeSlot(i) ==
    /\ ~Suspended(tasks[i])
    /\ \A j \in 1..(i - 1) : Suspended(tasks[j])

\* the protocol delivers one PRIVMSG event; its task runs handle_privmsg up
\* to its first suspension or its end.  An event is taken only while the
\* bounded clock can still reach the deadline the task may start.
Receive(nicks, targets, messages, limit) ==
    \E i \in Slots, self \in Instances,
       nick \in nicks, target \in targets, message \in messages :
        /\ nevents < limit
        /\ clock + LRRMC_TIMEOUT <= MaxClock
        /\ FreeSlot(i)
        /\ LET r == handle_privmsg(self, nick, target, message, clock,
                                   spam_last, routes)
           IN  /\ tasks' = [j \in Slots |->
                              IF j = i THEN r.task
                              ELSE IF Suspended(tasks[j]) THEN tasks[j]
                              ELSE IdleTask]
               /\ spam_last' = r.last
        /\ nevents' = nevents + 1
        /\ UNCHANGED <<clock, routes>>

\* variant: a handler that raises gives its window back
TwitchReturn_Rollback ==
    \E i \in Slots, result \in TwitchResults :
        /\ tasks[i].pc = "await_twitch"
        /\ tasks' = [tasks EXCEPT ![i] = twitch_resume(@, result)]
        /\ spam_last' = IF tasks'[i].pc = "raised"
                        THEN [spam_last EXCEPT ![tasks[i].handler] = 0]
                        ELSE spam_last
        /\ UNCHANGED <<clock, routes, nevents>>

\* twitch.get_broadcasts / get_top_clips returns
TwitchReturn ==
    \E i \in Slots, result \in TwitchResults :
        /\ tasks[i].pc = "await_twitch"
        /\ tasks' = [tasks EXCEPT ![i] = twitch_resume(@, result)]
        /\ UNCHANGED <<clock, spam_last, routes, nevents>>

\* aiomc.get_status returns before the deadline of asyncio.wait_for
StatusReturn ==
    \E i \in Slots, status \in StatusResults :
        /\ tasks[i].pc = "await_status"
        /\ clock <= tasks[i].started + LRRMC_TIMEOUT
        /\ tasks' = [tasks EXCEPT ![i] = lrrmc_resume(@, status)]
        /\ UNCHANGED <<clock, spam_last, routes, nevents>>

\* variant: on expiry the request is made again under a new deadline
StatusTimeout_Retry ==
    \E i \in Slots :
        /\ tasks[i].pc = "await_status"
        /\ clock >= tasks[i].started + LRRMC_TIMEOUT
        /\ tasks' = [tasks EXCEPT ![i].calls = @ + 1, ![i].started = clock]
        /\ UNCHANGED <<clock, spam_last, routes, nevents>>

\* the deadline of asyncio.wait_for expires: asyncio.TimeoutError
StatusTimeout ==
    \E i \in Slots :
        /\ tasks[i].pc = "await_status"
        /\ clock >= tasks[i].started + LRRMC_TIMEOUT
        /\ tasks' = [tasks EXCEPT ![i] = lrrmc_resume(@, PyNone)]
        /\ UNCHANGED <<clock, spam_last, routes, nevents>>

\* songs.get_lastfm_info returns
LastfmReturn ==
    \E i \in Slots, info \in LastfmResults :
        /\ tasks[i].pc = "await_lastfm"
        /\ tasks' = [tasks EXCEPT ![i] = lastfm_resume(@, info)]
        /\ UNCHANGED <<clock, spam_last, routes, nevents>>

(***************************************************************************)
(* Spec: the limiter under a fine clock.  Two commands, one of them        *)
(* suspending on its collaborator, from one sender in one channel; the     *)
(* clock starts at the span, so that clock values on both sides of it occur.*)
(***************************************************************************)
LimiterMessages == {M_vod, M_bingo}

Init ==
    /\ clock = DefaultSpan
    /\ InitRest

ReceiveLimiter == Receive({"alice"}, {"#lrr"}, LimiterMessages, MaxEvents)

Next == Tick \/ ReceiveLimiter \/ TwitchReturn

Spec == Init /\ [][Next]_vars

(***************************************************************************)
(* SpecHandlers: a burst of events at one clock value past the span:       *)
(* every command and the texts that are no command, from a channel and in  *)
(* a query; then time passes while the collaborators answer or stall.      *)
(***************************************************************************)
InitHandlers ==
    /\ clock = MaxClock - LRRMC_TIMEOUT
    /\ InitRest

ReceiveAny ==
    Receive({"alice"}, {"#lrr", nickname},
            CommandMessages \cup NonCommandMessages, MaxBurst)

NextHandlers ==
    Tick \/ ReceiveAny \/ TwitchReturn \/ StatusReturn \/ StatusTimeout \/ LastfmReturn

SpecHandlers == InitHandlers /\ [][NextHandlers]_vars

(***************************************************************************)
(* SpecLive: the server-status command with the scheduling of the event    *)
(* loop: time passes, and a timer that is due fires.  The collaborator     *)
(* may answer in time or never.                                            *)
(***************************************************************************)
InitLive ==
    /\ clock = MaxClock - LRRMC_TIMEOUT - 1
    /\ InitRest

ReceiveLrrmc ==
    Receive({"alice"}, {"#lrr", nickname},
            {M_lrrmc, M_lrrmc_snorsh, M_pick_other}, MaxBurst)

NextLive == Tick \/ ReceiveLrrmc \/ StatusReturn \/ StatusTimeout

SpecLive ==
    InitLive /\ [][NextLive]_vars /\ WF_vars(Tick) /\ WF_vars(StatusTimeout)

(***************************************************************************)
(* SpecKeyed: the server-status command in its ASCII form without an       *)
(* argument and in its emoji form with one, from two senders, in two       *)
(* channels and in a query, while the collaborator answers or stalls.      *)
(***************************************************************************)
InitKeyed ==
    /\ clock = MaxClock - LRRMC_TIMEOUT - 1
    /\ InitRest

ReceiveKeyed ==
    Receive({"alice", "bob"}, {"#lrr", "#other", nickname},
            {M_lrrmc, M_pick_other}, MaxBurst)

NextKeyed == Tick \/ ReceiveKeyed \/ StatusReturn \/ StatusTimeout

SpecKeyed == InitKeyed /\ [][NextKeyed]_vars

(***************************************************************************)
(* SpecRouter: the router.  Further CommandHandler instances may be         *)
(* constructed, and every instance gets events: every command and the      *)
(* texts that are no command, at one clock value past the span.            *)
(***************************************************************************)
\* CommandHandler(client, ...): __init__ ends in setup_routing, which
\* appends to CommandRouter.routes, a list made once in the class body
Construct ==
    /\ Cardinality(Instances) < MaxInstances
    /\ routes' = setup_routing(routes, Cardinality(Instances) + 1)
    /\ UNCHANGED <<clock, spam_last, tasks, nevents>>

InitRouter ==
    /\ clock = MaxClock - LRRMC_TIMEOUT
    /\ InitRest

ReceiveRouter ==
    Receive({"alice"}, {"#lrr"}, CommandMessages \cup NonCommandMessages, MaxBurst)

NextRouter == Construct \/ ReceiveRouter

SpecRouter == InitRouter /\ [][NextRouter]_vars

(***************************************************************************)
(* Helpers of the properties.                                              *)
(***************************************************************************)
\* a step that delivers an event, and the task the event starts
Delivers == nevents' = nevents + 1

NewSlot == CHOOSE i \in Slots : FreeSlot(i)

Routed(t) == t.pc # "idle" /\ t.handler # "none"

Abs(n) == IF n < 0 THEN -n ELSE n

(***************************************************************************)
(* C1.  The check and the update of a wrapper's timestamp are atomic       *)
(* under every interleaving of the tasks: no two calls of one wrapped      *)
(* handler whose check times lie within one minimum interval of each       *)
(* other are both permitted.  Every permitted call kept in a slot is more  *)
(* than the interval away from every other permitted call of the handler,  *)
(* the kept ones and the latest one, whose time the wrapper stores.        *)
(***************************************************************************)
C1_AtomicCheckAndSet ==
    /\ \A i, j \in Slots :
          ( /\ i # j
            /\ Routed(tasks[i]) /\ Routed(tasks[j])
            /\ tasks[i].handler = tasks[j].handler
            /\ tasks[i].permitted /\ tasks[j].permitted )
          => Abs(tasks[i].started - tasks[j].started) > DefaultSpan
    /\ \A i \in Slots :
          (Routed(tasks[i]) /\ tasks[i].permitted)
          => LET latest == spam_last[tasks[i].handler] IN
             \/ latest = tasks[i].started
             \/ latest - tasks[i].started > DefaultSpan

\* two dispatches of one command in flight together, both permitted
C1_Witness ==
    \E i, j \in Slots :
        /\ i # j
        /\ Suspended(tasks[i]) /\ Suspended(tasks[j])
        /\ tasks[i].handler = tasks[j].handler
        /\ tasks[i].permitted /\ tasks[j].permitted

(***************************************************************************)
(* C2.  With the last permitted invocation of a handler started at t0, a   *)
(* call strictly before t0 + I is suppressed: the handler is not entered,  *)
(* no collaborator is called, nothing is sent, the timestamp stays; a call *)
(* strictly after t0 + I is permitted.  t0 is the start of the previous    *)
(* invocation, whether or not it has completed.                            *)
(***************************************************************************)
C2_WindowFromStart ==
    [][Delivers =>
        LET t == tasks'[NewSlot]
            h == t.handler
        IN  (Routed(t) /\ spam_last[h] > 0) =>
              /\ (clock < spam_last[h] + DefaultSpan) =>
                    /\ ~t.permitted
                    /\ t.pc = "returned"
                    /\ t.calls = 0
                    /\ t.sent = << >>
                    /\ spam_last' = spam_last
              /\ (clock > spam_last[h] + DefaultSpan) =>
                    /\ t.permitted
                    /\ spam_last'[h] = clock
                    /\ t.calls + Len(t.sent) = 1
    ]_vars

\* a call permitted one second after the window ends, while the previous
\* invocation, from whose start the window runs, has not completed
C2_Witness ==
    \E i, j \in Slots :
        /\ Suspended(tasks[j]) /\ tasks[j].permitted
        /\ Routed(tasks[i]) /\ tasks[i].handler = tasks[j].handler
        /\ tasks[i].permitted
        /\ tasks[i].started = tasks[j].started + DefaultSpan + 1
        /\ spam_last[tasks[i].handler] = tasks[i].started

(***************************************************************************)
(* C3, as stated: a call made when the time elapsed since the last         *)
(* permitted invocation equals the minimum interval is permitted.          *)
(***************************************************************************)
C3_ExactIntervalPermitted ==
    [][Delivers =>
        LET t == tasks'[NewSlot]
            h == t.handler
        IN  (Routed(t) /\ spam_last[h] > 0 /\ clock - spam_last[h] = DefaultSpan)
            => (t.permitted /\ spam_last'[h] = clock)
    ]_vars

(***************************************************************************)
(* C3, amended: a call made when the time elapsed since the last permitted *)
(* invocation equals the minimum interval is suppressed: the timestamp is  *)
(* not updated and the handler is not invoked.  A call is permitted only   *)
(* when the elapsed time exceeds the interval.                             *)
(***************************************************************************)
C3_ExactIntervalSuppressed ==
    [][Delivers =>
        LET t == tasks'[NewSlot]
            h == t.handler
        IN  /\ (Routed(t) /\ spam_last[h] > 0 /\ clock - spam_last[h] = DefaultSpan)
               => /\ ~t.permitted
                  /\ spam_last' = spam_last
                  /\ t.calls = 0 /\ t.sent = << >>
            /\ (Routed(t) /\ t.permitted) => clock - spam_last[h] > DefaultSpan
    ]_vars

\* a call suppressed exactly one interval after the last permitted one
C3_Witness ==
    \E i \in Slots :
        /\ Routed(tasks[i]) /\ ~tasks[i].permitted
        /\ spam_last[tasks[i].handler] > 0
        /\ tasks[i].started - spam_last[tasks[i].handler] = DefaultSpan

(***************************************************************************)
(* C4.  The first call ever made to a wrapped handler is permitted,        *)
(* whatever the clock reads.  The first event delivered is the first call  *)
(* of its handler.                                                         *)
(***************************************************************************)
C4_FirstCallPermitted ==
    nevents = 1 => \A i \in Slots : Routed(tasks[i]) => tasks[i].permitted

(***************************************************************************)
(* C5.  The limiter state of a handler is its own: a step changes the      *)
(* timestamp of handler A only by a permitted call of A, and whether a     *)
(* call of A is permitted is decided by A's timestamp alone.               *)
(***************************************************************************)
C5_PerHandlerState ==
    [][ /\ \A a \in HandlerNames :
              spam_last'[a] # spam_last[a]
              => /\ Delivers
                 /\ tasks'[NewSlot].handler = a
                 /\ tasks'[NewSlot].permitted
                 /\ spam_last'[a] = clock
        /\ Delivers =>
              LET t == tasks'[NewSlot] IN
              Routed(t) =>
                 (t.permitted <=> clock - spam_last[t.handler] > DefaultSpan)
    ]_vars

\* a call of one handler permitted inside the window of another
C5_Witness ==
    \E i \in Slots, b \in HandlerNames :
        /\ Routed(tasks[i]) /\ tasks[i].permitted
        /\ b # tasks[i].handler
        /\ spam_last[b] > 0
        /\ spam_last[b] < tasks[i].started
        /\ tasks[i].started - spam_last[b] < DefaultSpan
        /\ spam_last[tasks[i].handler] = tasks[i].started

(***************************************************************************)
(* C6.  An exception raised by a command handler never escapes the         *)
(* dispatcher: no task of handle_privmsg ends by raising.                  *)
(***************************************************************************)
C6_NoExceptionEscapes ==
    \A i \in Slots : tasks[i].pc # "raised"

(***************************************************************************)
(* C7.  An event whose text is no command (it does not start with a        *)
(* prefix character, or is the prefix character alone, or is a prefix and  *)
(* a text no registered pattern fully matches) ends its dispatch at once:  *)
(* nothing is sent, no collaborator is called, no limiter state changes.   *)
(***************************************************************************)
NotACommand(m) ==
    \/ Len(m) = 0
    \/ m[1] \notin prefix
    \/ Len(m) = 1
    \/ \A k \in 1..Len(routes) : ~fullmatch(routes[k].regex, Tail_n(m, 1)).matched

C7_NonCommandIgnored ==
    [][Delivers =>
        LET t == tasks'[NewSlot] IN
        NotACommand(t.message) =>
            /\ t.pc = "returned"
            /\ t.sent = << >>
            /\ t.calls = 0
            /\ spam_last' = spam_last
            /\ \A j \in Slots \ {NewSlot} :
                  tasks'[j].sent = << >> \/ tasks'[j] = tasks[j]
    ]_vars

\* a prefixed text that only starts like a command has been dispatched
\* and has ended
C7_Witness ==
    \E i \in Slots :
        /\ tasks[i].pc = "returned"
        /\ tasks[i].message = Cmd(T_help \o <<" ", "m", "e">>)
        /\ tasks[i].sent = << >>
        /\ tasks[i].calls = 0

(***************************************************************************)
(* C8.  Every message a dispatch sends goes to the sender when the target  *)
(* of the event is the bot's own nickname, and to the target of the event  *)
(* otherwise.                                                              *)
(***************************************************************************)
C8_ReplyTarget ==
    \A i \in Slots : \A k \in 1..Len(tasks[i].sent) :
        tasks[i].sent[k].target =
            IF tasks[i].target = nickname THEN tasks[i].nick ELSE tasks[i].target

\* a query answered to its sender after the collaborator returned
C8_Witness ==
    \E i \in Slots :
        /\ tasks[i].target = nickname
        /\ tasks[i].handler = "lastfm"
        /\ Len(tasks[i].sent) = 1
        /\ tasks[i].sent[1].target = tasks[i].nick
        /\ tasks[i].nick # nickname

(***************************************************************************)
(* C10.  The scrobble handler sends exactly one message and ends:          *)
(*   no info: "Cannot query last.fm user information for <user>.";         *)
(*   a name but neither track nor artist:                                  *)
(*       "Cannot query most recently played track for <name>.";            *)
(*   name X, track T, artist A: X is listening to "T" by A when live,      *)
(*       X last listened to "T" by A when not.                             *)
(***************************************************************************)
C10_Expected(user, info) ==
    IF info = None
    THEN <<"Cannot query last.fm user information for ">> \o user \o <<".">>
    ELSE IF info[1].track = None
    THEN <<"Cannot query most recently played track for ", "X", ".">>
    ELSE IF info[1].live
    THEN <<"X", " ", "is listening", " to \"", "T", "\" by ", "A">>
    ELSE <<"X", " ", "last listened", " to \"", "T", "\" by ", "A">>

C10_Covered(info) ==
    \/ info = None
    \/ info[1].track = None /\ info[1].artist = None
    \/ info[1].track # None /\ info[1].artist # None

C10_LastfmMessages ==
    \A i \in Slots :
        (tasks[i].handler = "lastfm" /\ tasks[i].permitted)
        => /\ tasks[i].pc \in {"await_lastfm", "returned"}
           /\ tasks[i].pc = "await_lastfm" => tasks[i].sent = << >>
           /\ (tasks[i].pc = "returned" /\ C10_Covered(tasks[i].result))
              => /\ Len(tasks[i].sent) = 1
                 /\ tasks[i].calls = 1
                 /\ tasks[i].sent[1].text =
                        C10_Expected(<<"b", "o", "b">>, tasks[i].result)

\* the handler has answered for a user who is listening right now
C10_Witness ==
    \E i \in Slots :
        /\ tasks[i].handler = "lastfm" /\ tasks[i].pc = "returned"
        /\ tasks[i].result # None
        /\ tasks[i].result[1].live
        /\ tasks[i].result[1].track # None /\ tasks[i].result[1].artist # None
        /\ Len(tasks[i].sent) = 1

(***************************************************************************)
(* C9.  A permitted invocation of the server-status handler always         *)
(* eventually sends exactly one message, also when the collaborator never  *)
(* answers: once the deadline has passed the request is given up, not      *)
(* made again, and the message reports the status "Unknown" with the       *)
(* name, host, port and info text of the selected server.                  *)
(***************************************************************************)
C9_Selected(t) ==
    IF t.kwargs.server = T_snorsh THEN SERVER_snorsh ELSE SERVER_vanilla

C9_UnknownText(server) ==
    <<"Join ", server.name, " on ", server.host, ":", "2", "5", "5", "6", "5",
      "! ", server.info, " Current Status: ", "Unknown">>

C9_DeadlineProbe ==
    /\ \A i \in Slots :
          (tasks[i].pc = "await_status")
          ~> ( /\ tasks[i].pc = "returned"
               /\ Len(tasks[i].sent) = 1
               /\ tasks[i].calls = 1 )
    /\ [][\A i \in Slots :
            ( /\ tasks[i].pc = "await_status"
              /\ tasks'[i] # tasks[i]
              /\ clock > tasks[i].started + LRRMC_TIMEOUT )
            => /\ tasks'[i].pc = "returned"
               /\ tasks'[i].calls = 1
               /\ tasks'[i].sent =
                     <<[target |-> tasks[i].reply,
                        text |-> C9_UnknownText(C9_Selected(tasks[i]))]>>
         ]_vars

\* the collaborator has not answered by the deadline, and the handler has
\* sent its message after it
C9_Witness ==
    \E i \in Slots :
        /\ tasks[i].handler = "lrrmc" /\ tasks[i].pc = "returned"
        /\ tasks[i].kwargs.server = T_snorsh
        /\ tasks[i].result = PyNone
        /\ clock > tasks[i].started + LRRMC_TIMEOUT
        /\ Len(tasks[i].sent) = 1

(***************************************************************************)
(* C11.  Router resolution is first-match-wins: a command string is        *)
(* resolved to the callback of the earliest-registered binding whose       *)
(* pattern fully matches it, with the named groups of that match, and to   *)
(* a no-match value, without an error, when no binding matches.            *)
(***************************************************************************)
C11_Matching(cmd) ==
    {k \in 1..Len(routes) : fullmatch(routes[k].regex, cmd).matched}

C11_Earliest(cmd) ==
    CHOOSE k \in C11_Matching(cmd) : \A j \in C11_Matching(cmd) : k <= j

C11_FirstMatchWins ==
    \A i \in Slots :
        LET t == tasks[i]
            cmd == Tail_n(t.message, 1)
        IN  (t.pc # "idle" /\ Len(t.message) >= 2 /\ t.message[1] \in prefix)
            => /\ C11_Matching(cmd) = {}
                  => (t.handler = "none" /\ t.pc = "returned")
               /\ C11_Matching(cmd) # {}
                  => LET b == routes[C11_Earliest(cmd)] IN
                     /\ t.handler = b.callback
                     /\ t.bound = b.self
                     /\ t.kwargs = fullmatch(b.regex, cmd).groups
               /\ t.message = M_roll_2d6
                  => /\ t.handler = "roll"
                     /\ t.kwargs.count = <<"2">> /\ t.kwargs.sides = <<"6">>
               /\ t.message = M_die_d6
                  => /\ t.handler = "roll"
                     /\ t.kwargs.count = None /\ t.kwargs.sides = <<"6">>
               /\ t.message = M_pick_other
                  => /\ t.handler = "lrrmc"
                     /\ t.kwargs.server = <<"f", "U+00E9">>
               /\ t.message = M_lrrmc
                  => (t.handler = "lrrmc" /\ t.kwargs.server = None)
               /\ t.message = M_note_bob
                  => (t.handler = "lastfm" /\ t.kwargs.user = <<"b", "o", "b">>)

\* a command two bindings match has been resolved to the earlier of them
C11_Witness ==
    \E i \in Slots :
        /\ tasks[i].message = M_roll_2d6
        /\ Cardinality(C11_Matching(Tail_n(M_roll_2d6, 1))) = 2
        /\ tasks[i].handler = "roll"
        /\ tasks[i].bound = 1

(***************************************************************************)
(* C12.  The binding list is built once and never changed afterwards: it   *)
(* holds exactly one binding per command-table entry, also after a         *)
(* further CommandHandler has been constructed, and a command an instance  *)
(* receives is resolved to the handler of that instance.                   *)
(***************************************************************************)
C12_BindingsFixed ==
    /\ Len(routes) = Len(CMD_REGEX)
    /\ \A k \in 1..Len(routes) : routes[k].regex = CMD_REGEX[k]
    /\ \A i \in Slots : Routed(tasks[i]) => tasks[i].bound = tasks[i].self


(***************************************************************************)
(* C13, as stated: while a permitted invocation of a handler is suspended  *)
(* on a collaborator no second invocation of the same handler is started,  *)
(* so at most one invocation of a handler is in flight at any time.        *)
(***************************************************************************)
C13_OneInFlight ==
    \A i, j \in Slots :
        ( /\ i # j
          /\ Suspended(tasks[i]) /\ tasks[i].permitted
          /\ Suspended(tasks[j]) /\ tasks[j].permitted )
        => tasks[i].handler # tasks[j].handler

(***************************************************************************)
(* C13, amended: while a permitted invocation of a handler is suspended,   *)
(* a second invocation of the handler is started only when more than the   *)
(* minimum interval has passed since the start of the suspended one; and   *)
(* when more than the interval has passed since the latest permitted start *)
(* the second invocation is started although the first has not completed.  *)
(***************************************************************************)
C13_NoStartWithinInterval ==
    [][Delivers =>
        LET t == tasks'[NewSlot] IN
        \A j \in Slots :
            ( /\ Suspended(tasks[j]) /\ tasks[j].permitted
              /\ Routed(t) /\ t.handler = tasks[j].handler )
            => /\ t.permitted => clock - tasks[j].started > DefaultSpan
               /\ (clock - spam_last[t.handler] > DefaultSpan) =>
                     /\ t.permitted
                     /\ Suspended(t)
                     /\ Suspended(tasks'[j])
    ]_vars

\* two invocations of one handler suspended together, the second started
\* one second after the window of the first, and time has passed since
C13_Witness ==
    \E i, j \in Slots :
        /\ Suspended(tasks[i]) /\ tasks[i].permitted
        /\ Suspended(tasks[j]) /\ tasks[j].permitted
        /\ tasks[i].handler = tasks[j].handler
        /\ tasks[i].started = tasks[j].started + DefaultSpan + 1
        /\ clock > tasks[i].started


(***************************************************************************)
(* C14.  When the video platform returns an empty sequence the vod and     *)
(* clip handlers do not raise: a permitted vod or clip invocation that is  *)
(* no longer waiting for the collaborator has completed normally.          *)
(***************************************************************************)
C14_EmptyResultHandled ==
    \A i \in Slots :
        ( /\ tasks[i].handler \in {"vod", "clip"}
          /\ tasks[i].permitted
          /\ ~Suspended(tasks[i]) )
        => tasks[i].pc = "returned"

(***************************************************************************)
(* C15.  The lastfm handler composes the listening message only when the   *)
(* info holds both a track and an artist; when either one is absent it     *)
(* sends the cannot-query-track message for the resolved name instead.     *)
(***************************************************************************)
C15_TrackOrArtistAbsent ==
    \A i \in Slots :
        LET t == tasks[i] IN
        ( /\ t.handler = "lastfm" /\ t.permitted /\ t.pc = "returned"
          /\ t.result # None
          /\ (t.result[1].track = None \/ t.result[1].artist = None) )
        => /\ Len(t.sent) = 1
           /\ t.sent[1].text = no_lastfm_track_msg(t.result[1].name)


(***************************************************************************)
(* C16.  The stored timestamp of every wrapped handler never decreases,    *)
(* whatever the interleaving of calls; it changes only in a step that      *)
(* permits an invocation of that handler, and then to the current clock.   *)
(***************************************************************************)
C16_TimestampMonotone ==
    [][\A h \in HandlerNames :
         /\ spam_last'[h] >= spam_last[h]
         /\ spam_last'[h] # spam_last[h] =>
               /\ Delivers
               /\ tasks'[NewSlot].handler = h
               /\ tasks'[NewSlot].permitted
               /\ spam_last'[h] = clock
    ]_vars

\* the timestamp of a handler has moved on past the start of an earlier
\* permitted invocation of it, which is still kept
C16_Witness ==
    \E i \in Slots :
        /\ Routed(tasks[i]) /\ tasks[i].permitted
        /\ tasks[i].started > 0
        /\ spam_last[tasks[i].handler] > tasks[i].started

(***************************************************************************)
(* C17.  A suppressed call has no effect on the limiter: the timestamps    *)
(* stay, the call returns normally with nothing called and nothing sent,   *)
(* and it is never started later.  So a call later than t0 + I after a     *)
(* permitted invocation at t0 is permitted, whatever was suppressed in     *)
(* between.                                                                *)
(***************************************************************************)
C17_SuppressedNoEffect ==
    [][/\ Delivers =>
            LET t == tasks'[NewSlot] IN
            /\ (Routed(t) /\ ~t.permitted) =>
                  /\ spam_last' = spam_last
                  /\ t.pc = "returned"
                  /\ t.calls = 0
                  /\ t.sent = << >>
            /\ (Routed(t) /\ clock > spam_last[t.handler] + DefaultSpan) =>
                  t.permitted
       /\ \A i \in Slots :
            (Routed(tasks[i]) /\ ~tasks[i].permitted) =>
               \/ tasks'[i] = tasks[i]
               \/ Delivers
    ]_vars

\* a suppressed call is kept, the timestamp of its handler is still the
\* earlier permitted start, and the window from that start has run out
C17_Witness ==
    \E i \in Slots :
        /\ Routed(tasks[i]) /\ ~tasks[i].permitted
        /\ spam_last[tasks[i].handler] > 0
        /\ spam_last[tasks[i].handler] < tasks[i].started
        /\ clock > spam_last[tasks[i].handler] + DefaultSpan


(***************************************************************************)
(* C18.  Every inbound event produces at most one outbound message, and a  *)
(* permitted invocation that completes without a fault has sent exactly    *)
(* one, to the resolved reply target: the sender's nick for a query, the   *)
(* channel otherwise.  An event that is not routed or is suppressed sends  *)
(* nothing.                                                                *)
(***************************************************************************)
C18_OneMessagePerEvent ==
    \A i \in Slots :
        LET t == tasks[i]
            to == IF t.target = nickname THEN t.nick ELSE t.target
        IN  /\ Len(t.sent) <= 1
            /\ \A k \in 1..Len(t.sent) : t.sent[k].target = to
            /\ (t.permitted /\ t.pc = "returned") => Len(t.sent) = 1
            /\ ~t.permitted => t.sent = << >>

\* the lrrmc handler has taken its early return on an empty status and
\* the event has its one message, while another event sent its own
C18_Witness ==
    \E i, j \in Slots :
        /\ i # j
        /\ tasks[i].handler = "lrrmc" /\ tasks[i].pc = "returned"
        /\ tasks[i].permitted /\ tasks[i].result = EmptyDict
        /\ Len(tasks[i].sent) = 1
        /\ tasks[j].permitted /\ Len(tasks[j].sent) = 1


(***************************************************************************)
(* C19.  The timestamp is stored before the handler is entered, so a       *)
(* permitted invocation that raises, or that never completes, still uses   *)
(* up the window: the step in which it raises leaves every timestamp as    *)
(* it is, the timestamp of its handler is never before its start, and a    *)
(* further call of the handler within the minimum interval of that start   *)
(* is suppressed.                                                          *)
(***************************************************************************)
C19_FailureConsumesWindow ==
    [][/\ \A i \in Slots :
            (tasks'[i].pc = "raised" /\ tasks[i].pc # "raised") =>
               /\ spam_last' = spam_last
               /\ spam_last'[tasks'[i].handler] >= tasks'[i].started
       /\ Delivers =>
            LET t == tasks'[NewSlot] IN
            \A j \in Slots :
               ( /\ tasks[j].permitted
                 /\ tasks[j].pc \in {"raised", "await_twitch"}
                 /\ Routed(t) /\ t.handler = tasks[j].handler
                 /\ clock - tasks[j].started <= DefaultSpan )
               => /\ ~t.permitted
                  /\ t.calls = 0
                  /\ spam_last' = spam_last
    ]_vars

\* an invocation has raised, its start is still the stored timestamp and
\* the clock has moved on inside its window
C19_Witness ==
    \E i \in Slots :
        /\ tasks[i].pc = "raised" /\ tasks[i].permitted
        /\ spam_last[tasks[i].handler] = tasks[i].started
        /\ clock > tasks[i].started
        /\ clock <= tasks[i].started + DefaultSpan


(***************************************************************************)
(* C20.  The window is kept per handler only.  Once an invocation of a     *)
(* command has been permitted, a call of the same command within the       *)
(* minimum interval is suppressed whoever sends it, wherever it is sent    *)
(* (another channel or a query), in either form and with any argument:     *)
(* whether a call is permitted depends on the handler's timestamp alone.   *)
(***************************************************************************)
C20_KeyedByHandlerOnly ==
    [][Delivers =>
        LET t == tasks'[NewSlot] IN
        /\ Routed(t) => (t.permitted <=>
                           clock - spam_last[t.handler] > DefaultSpan)
        /\ \A j \in Slots :
             ( /\ Routed(t) /\ Routed(tasks[j]) /\ tasks[j].permitted
               /\ t.handler = tasks[j].handler
               /\ clock - tasks[j].started <= DefaultSpan )
             => /\ ~t.permitted
                /\ t.calls = 0
                /\ t.sent = << >>
    ]_vars

\* the command permitted for one sender in a channel, and its emoji form
\* with another argument, from another sender in a query, suppressed
C20_Witness ==
    \E i, j \in Slots :
        /\ Routed(tasks[j]) /\ tasks[j].permitted
        /\ tasks[j].message = M_lrrmc /\ tasks[j].target = "#lrr"
        /\ Routed(tasks[i]) /\ ~tasks[i].permitted
        /\ tasks[i].handler = tasks[j].handler
        /\ tasks[i].message = M_pick_other
        /\ tasks[i].nick # tasks[j].nick
        /\ tasks[i].target = nickname
        /\ tasks[i].kwargs # tasks[j].kwargs
        /\ tasks[i].started >= tasks[j].started

====
